---------------------------- MODULE Spec2Model ----------------------------
(***************************************************************************)
(* Data-Lake-Project/Datalake_etl.py: the batch job that derives the       *)
(* songs, artists, users, time and songplays tables from the song catalog  *)
(* and the activity log.                                                   *)
(*                                                                         *)
(* A DataFrame is modelled by the table it denotes: the set of its column  *)
(* names and the sequence of its rows (a row is a function from column     *)
(* name to value).  Every statement that can raise is modelled with the    *)
(* condition under which it raises; the module has no try/except, so an    *)
(* exception ends the run.                                                 *)
(*                                                                         *)
(* An entry point is main() or one of the two functions it calls, called   *)
(* on its own against the same output root.  main never reaches its call   *)
(* of process_log_data: line 68 names a column the catalog schema does not *)
(* have, so process_song_data raises at line 69.  The statements of        *)
(* process_log_data after line 113 (the time write, the re-read of songs   *)
(* and artists, the three joins, the songplays write) are never executed   *)
(* either: line 113 uses a name the module never imports.  Statements that *)
(* no execution reaches are not actions here.                              *)
(***************************************************************************)
EXTENDS Integers, Sequences, FiniteSets, TLC

VARIABLES
    pc,          \* the statement the current call is at ("idle" before any call, "end" after it)
    entry,       \* the function the current call entered by
    calls,       \* the entry points called so far, in order
    error,       \* the exception that ended (or hit) the current call
    store,       \* the output root: one directory per table
    song_files,  \* the catalog records under input_data + 'song_data/*/*/*/*.json'
    log_files,   \* the log records under input_data + 'log_data/*/*/*.json'
    true_div,    \* whether int / int is true division (Python 3) or floor division (Python 2)
    df,          \* the local df of the running function
    songs_table, \* the local songs_table
    user_table,  \* the local user_table
    time_frame   \* the value of the receiver chain of lines 107-112

vars == <<pc, entry, calls, error, store, song_files, log_files, true_div,
          df, songs_table, user_table, time_frame>>

\* ------------------------------------------------------------------ bounds

\* Catalog records per input snapshot.
MaxSongs == 2
\* Log events per input snapshot.
MaxLogs == 2
\* Calls of an entry point against the same output root.
MaxRuns == 2

\* ------------------------------------------------------------ small helpers

Range(s) == {s[i] : i \in 1..Len(s)}

SeqsUpTo(S, n) == UNION {[1..k -> S] : k \in 0..n}

\* The contents of an input directory: no file at all, or files holding at
\* most n records drawn from the sequence pool.  A DataFrame is a bag of rows,
\* so each content is drawn once, in the order of the pool, and not once per
\* order of its records.
Snapshots(pool, n) ==
    {[files |-> FALSE, recs |-> <<>>]} \cup
    {[files |-> TRUE, recs |-> [i \in 1..Len(ix) |-> pool[ix[i]]]] :
        ix \in {s \in SeqsUpTo(1..Len(pool), n) :
                  \A i, j \in 1..Len(s) : i < j => s[i] <= s[j]}}

NULL == "null"

EmptyFrame == [columns |-> {}, rows |-> <<>>]

NoError == [line |-> 0, exc |-> "none"]

NoTable == [exists |-> FALSE, rows |-> <<>>, partitionBy |-> <<>>]

Tables == {"songs", "artists", "users", "time", "songplays"}


\* ------------------------------------------------------------- the inputs

\* Lines 44-55: the declared schema of a catalog record.
song_schema ==
    {"num_songs", "artist_id", "artist_latitude", "artist_longitude",
     "artist_location", "artist_name", "song_id", "title", "duration", "year"}

\* Lines 5-6: the names imported from pyspark.sql.functions.
Imported ==
    {"udf", "col", "year", "month", "dayofmonth", "hour", "weekofyear", "date_format"}

\* The catalog records an input snapshot is drawn from: two records with the
\* same song_id and a different duration, and one of another artist.
CatalogRecords ==
    << [num_songs |-> 1, artist_id |-> "AR1", artist_latitude |-> 35,
       artist_longitude |-> -90, artist_location |-> "Memphis",
       artist_name |-> "Elena", song_id |-> "SO1", title |-> "Setanta",
       duration |-> 269, year |-> 2004],
      [num_songs |-> 1, artist_id |-> "AR1", artist_latitude |-> 35,
       artist_longitude |-> -90, artist_location |-> "Memphis",
       artist_name |-> "Elena", song_id |-> "SO1", title |-> "Setanta",
       duration |-> 300, year |-> 2004],
      [num_songs |-> 1, artist_id |-> "AR2", artist_latitude |-> 40,
       artist_longitude |-> -74, artist_location |-> "Hamtramck",
       artist_name |-> "Casual", song_id |-> "SO2", title |-> "Setanta",
       duration |-> 218, year |-> 0] >>

\* The ts of a log record is an integer of milliseconds that does not fit the
\* 32-bit integers of TLC: it is written in radix 1000, <<hi, lo>> for
\* hi * 1000 + lo.
TsScenario == <<1541121934, 796>>    \* 1541121934796
TsSameSecond == <<1541121934, 12>>   \* 1541121934012
TsYearEnd == <<1546300799, 999>>     \* 1546300799999

LogBase(page, level, ts) ==
    [page |-> page, userId |-> "10", firstName |-> "Sylvie", lastName |-> "Cruz",
     gender |-> "F", level |-> level, ts |-> ts, song |-> "Setanta",
     artist |-> "Elena", sessionId |-> "9", location |-> "Washington",
     userAgent |-> "Mozilla"]

\* The same record with one more field, spelled userdId.
WithUserdId(e) == [c \in DOMAIN e \cup {"userdId"} |-> IF c = "userdId" THEN e.userId ELSE e[c]]

\* The log records an input snapshot is drawn from: the two events of the
\* spec's Scenario B, and three events that the code lets through as far as
\* line 112 (their page is the value line 93 compares with, and they carry
\* the field line 96 reads): two levels of one user, two ts of one second,
\* and a ts in the last second of a year.
LogEvents ==
    << LogBase("NextSong", "free", TsScenario),
      LogBase("Help", "free", TsScenario),
      WithUserdId(LogBase("NextPage", "free", TsScenario)),
      WithUserdId(LogBase("NextPage", "paid", TsSameSecond)),
      WithUserdId(LogBase("NextPage", "free", TsYearEnd)) >>

\* ------------------------------------------------------ the dataframe engine

\* spark.read.json(path, schema = song_schema), line 58.
read_json_schema(recs, schema) ==
    [columns |-> schema,
     rows |-> [i \in 1..Len(recs) |-> [c \in schema |-> recs[i][c]]]]

\* spark.read.json(path), line 90: the columns are the fields that occur in
\* the data, and a record without a field holds null there.
read_json(recs) ==
    LET cols == UNION {DOMAIN recs[i] : i \in 1..Len(recs)}
    IN  [columns |-> cols,
         rows |-> [i \in 1..Len(recs) |->
                     [c \in cols |-> IF c \in DOMAIN recs[i] THEN recs[i][c] ELSE NULL]]]

\* df.select(columns), line 62 and line 107.
select(frame, cols) ==
    [columns |-> cols,
     rows |-> [i \in 1..Len(frame.rows) |-> [c \in cols |-> frame.rows[i][c]]]]

\* Whether every source column of "src AS alias" expressions names a column.
Resolves(frame, exprs) == \A i \in 1..Len(exprs) : exprs[i].src \in frame.columns

\* df.selectExpr(exprs), lines 69 and 97 (exprs resolve).
selectExpr(frame, exprs) ==
    LET names == {exprs[i].as : i \in 1..Len(exprs)}
        src(a) == (CHOOSE i \in 1..Len(exprs) : exprs[i].as = a)
    IN  [columns |-> names,
         rows |-> [i \in 1..Len(frame.rows) |->
                     [a \in names |-> frame.rows[i][exprs[src(a)].src]]]]

RECURSIVE DistinctRows(_, _)
DistinctRows(rows, seen) ==
    IF rows = <<>> THEN <<>>
    ELSE IF Head(rows) \in seen THEN DistinctRows(Tail(rows), seen)
    ELSE <<Head(rows)>> \o DistinctRows(Tail(rows), seen \cup {Head(rows)})

\* dropDuplicates left out: every row is kept.
keepDuplicates(frame) == frame

\* .dropDuplicates(), lines 69, 97 and 107: one row per full-row value.
dropDuplicates(frame) == [frame EXCEPT !.rows = DistinctRows(frame.rows, {})]

\* df.filter(df.page == value), line 93.
filter_page(frame, value) ==
    [frame EXCEPT !.rows = SelectSeq(frame.rows, LAMBDA r : r["page"] = value)]

\* The save mode of a write that names none (lines 65, 72, 100).
DefaultMode == "errorifexists"

\* Whether DataFrameWriter.parquet raises: the path exists and the mode forbids it.
PathExists(st, table, mode) == mode = "errorifexists" /\ st[table].exists

\* DataFrameWriter.parquet(path) when it does not raise.
parquet(st, table, frame, parts) ==
    [st EXCEPT ![table] = [exists |-> TRUE, rows |-> frame.rows, partitionBy |-> parts]]

\* ------------------------------------------------------------ the calendar

\* The proleptic Gregorian date of a day counted from 1970-01-01.
CivilFromDays(days) ==
    LET z == days + 719468
        era == z \div 146097
        doe == z - era * 146097
        yoe == (doe - doe \div 1460 + doe \div 36524 - doe \div 146096) \div 365
        doy == doe - (365 * yoe + yoe \div 4 - yoe \div 100)
        mp == (5 * doy + 2) \div 153
        d == doy - (153 * mp + 2) \div 5 + 1
        m == IF mp < 10 THEN mp + 3 ELSE mp - 9
    IN  [year |-> yoe + era * 400 + (IF m <= 2 THEN 1 ELSE 0), month |-> m, day |-> d]

\* The day, counted from 1970-01-01, of a proleptic Gregorian date.
DaysFromCivil(y0, m, d) ==
    LET y == IF m <= 2 THEN y0 - 1 ELSE y0
        era == y \div 400
        yoe == y - era * 400
        doy == (153 * (IF m > 2 THEN m - 3 ELSE m + 9) + 2) \div 5 + d - 1
        doe == yoe * 365 + yoe \div 4 - yoe \div 100 + doy
    IN  era * 146097 + doe - 719468

\* datetime.utcfromtimestamp(seconds + millis / 1000), line 103.
utcfromtimestamp(seconds, millis) ==
    LET date == CivilFromDays(seconds \div 86400)
        sod == seconds % 86400
    IN  [year |-> date.year, month |-> date.month, day |-> date.day,
         hour |-> sod \div 3600, minute |-> (sod % 3600) \div 60,
         second |-> sod % 60, millisecond |-> millis]

\* datetime.fromtimestamp in a zone eight hours east, in place of utcfromtimestamp.
get_datetime_local(x, truediv) ==
    IF truediv THEN utcfromtimestamp(x[1] + 28800, x[2]) ELSE utcfromtimestamp(x[1] + 28800, 0)

\* The lambda of line 103 on a ts: int(x) / 1000 is a float of seconds under
\* true division and the floor of it under floor division.
get_datetime(x, truediv) ==
    IF truediv THEN utcfromtimestamp(x[1], x[2]) ELSE utcfromtimestamp(x[1], 0)

\* pyspark.sql.functions hour, dayofmonth, month, year (lines 108-112), read
\* in the time zone in which the naive datetime of line 103 was stored.
hour(t) == t.hour
dayofmonth(t) == t.day
month(t) == t.month
year(t) == t.year

\* Monday = 1 .. Sunday = 7.
IsoWeekday(days) == ((days + 3) % 7) + 1

\* The number of ISO weeks of a year: 53 when it starts on a Thursday, or on
\* a Wednesday in a leap year.
IsoWeeksIn(y) ==
    LET jan1 == IsoWeekday(DaysFromCivil(y, 1, 1))
        leap == (y % 4 = 0 /\ y % 100 # 0) \/ y % 400 = 0
    IN  IF jan1 = 4 \/ (jan1 = 3 /\ leap) THEN 53 ELSE 52

\* pyspark.sql.functions.weekofyear (line 110): the ISO 8601 week.
weekofyear(t) ==
    LET days == DaysFromCivil(t.year, t.month, t.day)
        ordinal == days - DaysFromCivil(t.year, 1, 1) + 1
        w == (ordinal - IsoWeekday(days) + 10) \div 7
    IN  IF w < 1 THEN IsoWeeksIn(t.year - 1)
        ELSE IF w > IsoWeeksIn(t.year) THEN 1
        ELSE w

\* -------------------------------------------------------------- the program

EntryPoints == {"main", "process_song_data", "process_log_data"}

\* Line 68: the artists projection.
art_cols ==
    << [src |-> "artist_id", as |-> "artist_id"],
       [src |-> "artist_name", as |-> "name"],
       [src |-> "artist_location", as |-> "location"],
       [src |-> "artist_lattitude", as |-> "lattitude"],
       [src |-> "artist_longitude", as |-> "longitude"] >>

\* Line 96: the users projection.
user_cols ==
    << [src |-> "userdId", as |-> "user_id"],
       [src |-> "firstName", as |-> "first_name"],
       [src |-> "lastName", as |-> "last_name"],
       [src |-> "gender", as |-> "gender"],
       [src |-> "level", as |-> "level"] >>

\* Line 93: the page value the filter keeps.
PlaybackPage == "NextPage"

\* An exception caught and dropped around each statement: control goes on.
AfterRaiseCaught(next) == next

\* Where control is after an exception raised in a statement whose successor
\* is next: no function of the module catches anything (lines 28-153), so the
\* exception leaves main and the process ends.
AfterRaise(next) == "end"

\* Where control is after process_song_data returns (lines 152-153).
AfterSongData(e) == IF e = "main" THEN "log_read" ELSE "end"

\* The first statement of an entry point (lines 58, 90, 152).
FirstStatement(e) == IF e = "process_log_data" THEN "log_read" ELSE "song_read"

Init ==
    /\ pc = "idle"
    /\ entry = "none"
    /\ calls = <<>>
    /\ error = NoError
    /\ store = [t \in Tables |-> NoTable]
    /\ song_files = [known |-> FALSE, files |-> FALSE, recs |-> <<>>]
    /\ log_files = [known |-> FALSE, files |-> FALSE, recs |-> <<>>]
    /\ true_div \in BOOLEAN
    /\ df = EmptyFrame
    /\ songs_table = EmptyFrame
    /\ user_table = EmptyFrame
    /\ time_frame = EmptyFrame

\* A statement at line raises exc.
Raise(line, exc, next) ==
    /\ pc' = AfterRaise(next)
    /\ error' = [line |-> line, exc |-> exc]

\* main() (lines 144-153), or one of the module's two functions called on
\* its own, against the output root as the earlier calls left it.
Call(e) ==
    /\ pc \in {"idle", "end"}
    /\ Len(calls) < MaxRuns
    /\ pc' = FirstStatement(e)
    /\ entry' = e
    /\ calls' = Append(calls, e)
    /\ error' = NoError
    /\ df' = EmptyFrame
    /\ songs_table' = EmptyFrame
    /\ user_table' = EmptyFrame
    /\ time_frame' = EmptyFrame
    /\ UNCHANGED <<store, song_files, log_files, true_div>>

\* Line 58: df = spark.read.json(song_data, schema = song_schema), which
\* raises when the glob of line 41 matches no file.  The input snapshot is
\* fixed from its first read on.
song_read ==
    /\ pc = "song_read"
    /\ \E snap \in Snapshots(CatalogRecords, MaxSongs) :
        /\ song_files.known => snap = [files |-> song_files.files, recs |-> song_files.recs]
        /\ song_files' = [known |-> TRUE, files |-> snap.files, recs |-> snap.recs]
        /\ IF ~snap.files
           THEN Raise(58, "AnalysisException", "songs_write") /\ UNCHANGED df
           ELSE /\ df' = read_json_schema(snap.recs, song_schema)
                /\ pc' = "songs_write"
                /\ UNCHANGED error
    /\ UNCHANGED <<entry, calls, store, log_files, true_div,
                   songs_table, user_table, time_frame>>

\* Lines 61-65: songs_table = df.select(columns), written partitioned by
\* year and artist_id with the default save mode.
songs_write ==
    /\ pc = "songs_write"
    /\ LET columns == {"song_id", "title", "artist_id", "year", "duration"}
           table == select(df, columns)
       IN  /\ songs_table' = table
           /\ IF PathExists(store, "songs", DefaultMode)
              THEN Raise(65, "AnalysisException", "artists_write") /\ UNCHANGED store
              ELSE /\ store' = parquet(store, "songs", table, <<"year", "artist_id">>)
                   /\ pc' = "artists_write"
                   /\ UNCHANGED error
    /\ UNCHANGED <<entry, calls, song_files, log_files, true_div, df,
                   user_table, time_frame>>

\* Lines 68-72: artists_table = df.selectExpr(art_cols).dropDuplicates(),
\* written with the default save mode; then the function returns.
artists_write ==
    /\ pc = "artists_write"
    /\ IF ~Resolves(df, art_cols)
       THEN Raise(69, "AnalysisException", AfterSongData(entry)) /\ UNCHANGED store
       ELSE LET artists_table == dropDuplicates(selectExpr(df, art_cols))
            IN  IF PathExists(store, "artists", DefaultMode)
                THEN Raise(72, "AnalysisException", AfterSongData(entry)) /\ UNCHANGED store
                ELSE /\ store' = parquet(store, "artists", artists_table, <<>>)
                     /\ pc' = AfterSongData(entry)
                     /\ UNCHANGED error
    /\ UNCHANGED <<entry, calls, song_files, log_files, true_div, df,
                   songs_table, user_table, time_frame>>

\* Line 90: df = spark.read.json(log_data), the schema inferred; it raises
\* when the glob of line 87 matches no file.
log_read ==
    /\ pc = "log_read"
    /\ \E snap \in Snapshots(LogEvents, MaxLogs) :
        /\ log_files.known => snap = [files |-> log_files.files, recs |-> log_files.recs]
        /\ log_files' = [known |-> TRUE, files |-> snap.files, recs |-> snap.recs]
        /\ IF ~snap.files
           THEN Raise(90, "AnalysisException", "log_filter") /\ UNCHANGED df
           ELSE /\ df' = read_json(snap.recs)
                /\ pc' = "log_filter"
                /\ UNCHANGED error
    /\ UNCHANGED <<entry, calls, store, song_files, true_div,
                   songs_table, user_table, time_frame>>

\* Line 93: df = df.filter(df.page == 'NextPage'); df.page is an attribute
\* error when the frame has no such column.
log_filter ==
    /\ pc = "log_filter"
    /\ IF "page" \notin df.columns
       THEN Raise(93, "AttributeError", "users_write") /\ UNCHANGED df
       ELSE /\ df' = filter_page(df, PlaybackPage)
            /\ pc' = "users_write"
            /\ UNCHANGED error
    /\ UNCHANGED <<entry, calls, store, song_files, log_files, true_div,
                   songs_table, user_table, time_frame>>

\* Lines 96-100: user_table = df.selectExpr(user_cols).dropDuplicates(),
\* written with the default save mode.
users_write ==
    /\ pc = "users_write"
    /\ IF ~Resolves(df, user_cols)
       THEN Raise(97, "AnalysisException", "add_start_time")
            /\ UNCHANGED <<store, user_table>>
       ELSE LET table == dropDuplicates(selectExpr(df, user_cols))
            IN  /\ user_table' = table
                /\ IF PathExists(store, "users", DefaultMode)
                   THEN Raise(100, "AnalysisException", "add_start_time")
                        /\ UNCHANGED store
                   ELSE /\ store' = parquet(store, "users", table, <<>>)
                        /\ pc' = "add_start_time"
                        /\ UNCHANGED error
    /\ UNCHANGED <<entry, calls, song_files, log_files, true_div, df,
                   songs_table, time_frame>>

\* Lines 103-104: df = df.withColumn("start_time", get_datetime("ts")).
add_start_time ==
    /\ pc = "add_start_time"
    /\ df' = [columns |-> df.columns \cup {"start_time"},
              rows |-> [i \in 1..Len(df.rows) |->
                          [c \in df.columns \cup {"start_time"} |->
                             IF c = "start_time"
                             THEN get_datetime(df.rows[i]["ts"], true_div)
                             ELSE df.rows[i][c]]]]
    /\ pc' = "time_chain"
    /\ UNCHANGED <<entry, calls, error, store, song_files, log_files, true_div,
                   songs_table, user_table, time_frame>>

\* Lines 107-112: the receiver of the call of line 113, evaluated before its
\* argument: the distinct start_time values with hour, day, week, month, year.
time_chain ==
    /\ pc = "time_chain"
    /\ IF ~({"hour", "dayofmonth", "weekofyear", "month", "year"} \subseteq Imported)
       THEN Raise(108, "NameError", "time_weekday") /\ UNCHANGED time_frame
       ELSE LET distinct == dropDuplicates(select(df, {"start_time"}))
                cols == {"start_time", "hour", "day", "week", "month", "year"}
                derive(t) ==
                    [start_time |-> t, hour |-> hour(t), day |-> dayofmonth(t),
                     week |-> weekofyear(t), month |-> month(t), year |-> year(t)]
            IN  /\ time_frame' =
                      [columns |-> cols,
                       rows |-> [i \in 1..Len(distinct.rows) |->
                                   derive(distinct.rows[i]["start_time"])]]
                /\ pc' = "time_weekday"
                /\ UNCHANGED error
    /\ UNCHANGED <<entry, calls, store, song_files, log_files, true_div, df,
                   songs_table, user_table>>

\* Lines 113-114: dayofweek is no name of the module, and .select("") names
\* no column: the statement raises and time_table is never bound.
time_weekday ==
    /\ pc = "time_weekday"
    /\ IF "dayofweek" \notin Imported
       THEN Raise(113, "NameError", "end")
       ELSE Raise(114, "AnalysisException", "end")
    /\ UNCHANGED <<entry, calls, store, song_files, log_files, true_div, df,
                   songs_table, user_table, time_frame>>

\* The shape of the state: the statement position, the exception (if any),
\* one directory per output table, the two input snapshots, and the locals.
TypeOK ==
    /\ pc \in {"idle", "song_read", "songs_write", "artists_write", "log_read",
               "log_filter", "users_write", "add_start_time", "time_chain",
               "time_weekday", "end"}
    /\ entry \in EntryPoints \cup {"none"}
    /\ calls \in SeqsUpTo(EntryPoints, MaxRuns)
    /\ error.line \in {0, 58, 65, 69, 72, 90, 93, 97, 100, 108, 113, 114}
    /\ DOMAIN store = Tables
    /\ \A t \in Tables : store[t].exists \in BOOLEAN
    /\ Range(song_files.recs) \subseteq Range(CatalogRecords) /\ Len(song_files.recs) <= MaxSongs
    /\ Range(log_files.recs) \subseteq Range(LogEvents) /\ Len(log_files.recs) <= MaxLogs
    /\ true_div \in BOOLEAN
    /\ \A f \in {df, songs_table, user_table, time_frame} :
          \A i \in 1..Len(f.rows) : DOMAIN f.rows[i] = f.columns

Next ==
    \/ \E e \in EntryPoints : Call(e)
    \/ song_read
    \/ songs_write
    \/ artists_write
    \/ log_read
    \/ log_filter
    \/ users_write
    \/ add_start_time
    \/ time_chain
    \/ time_weekday

Spec == Init /\ [][Next]_vars

\* ------------------------------------------------------------------ claims

\* The log as line 90 reads it.
LogFrame == read_json(log_files.recs)

\* C1: process_log_data keeps exactly the events whose page is NextSong: once
\* the filter of line 93 has run, df holds the NextSong events of the log and
\* no other event.
C1_KeepsExactlyNextSong ==
    pc = "users_write" =>
        df.rows = SelectSeq(LogFrame.rows, LAMBDA r : r["page"] = "NextSong")

\* C3: every table is written with overwrite semantics, so a second run of
\* main over the same input (a catalog that is not empty), against the output
\* root the first run of main left, completes without an error and leaves all
\* five tables.
C3_SecondRunSucceeds ==
    (calls = <<"main", "main">> /\ pc = "end" /\ song_files.recs # <<>>) =>
        (error = NoError /\ \A t \in Tables : store[t].exists)

\* The rows of a stored table are pairwise different.
NoTwoEqualRows(rows) == \A i, j \in 1..Len(rows) : i # j => rows[i] # rows[j]

\* The users row of an event: the five columns line 96 reads, renamed.
UsersRowOf(r) ==
    [user_id |-> r["userdId"], first_name |-> r["firstName"],
     last_name |-> r["lastName"], gender |-> r["gender"], level |-> r["level"]]

C6_FailureEndsRun ==
    [][ /\ (error # NoError => pc = "end")
        /\ (error # NoError => store' = store)
        /\ (error' # NoError => (pc' = "end" /\ store' = store)) ]_vars

\* C6's case: a run that failed after the songs write had completed.
C6_Witness ==
    /\ pc = "end"
    /\ error.line = 69
    /\ store["songs"].exists
    /\ Len(store["songs"].rows) = 2
    /\ ~store["artists"].exists

\* The seconds since the epoch of a UTC calendar time.
EpochSeconds(t) ==
    DaysFromCivil(t.year, t.month, t.day) * 86400
        + t.hour * 3600 + t.minute * 60 + t.second

\* Whether df carries the start_time column of line 104.
HasStartTime == "start_time" \in df.columns

\* Every start_time value of df has its row in the time frame.
TimeFrameCovers ==
    pc = "time_weekday" =>
        \A i \in 1..Len(df.rows) : \E k \in 1..Len(time_frame.rows) :
            time_frame.rows[k]["start_time"] = df.rows[i]["start_time"]

SongsRowOf(r) ==
    [song_id |-> r.song_id, title |-> r.title, artist_id |-> r.artist_id,
     year |-> r.year, duration |-> r.duration]

\* The artists row of a catalog record.
ArtistsRowOf(r) ==
    [artist_id |-> r.artist_id, name |-> r.artist_name, location |-> r.artist_location,
     latitude |-> r.artist_latitude, longitude |-> r.artist_longitude]

\* C8: after process_song_data on an empty output root and a catalog that is
\* not empty, songs holds one row per catalog record, in no way deduplicated,
\* and artists holds one row per different five-column value of the catalog.
C8_SongsAllArtistsDistinct ==
    (/\ Len(calls) = 1
     /\ entry \in {"main", "process_song_data"}
     /\ pc = "end"
     /\ song_files.recs # <<>>) =>
        /\ store["songs"].rows =
              [i \in 1..Len(song_files.recs) |-> SongsRowOf(song_files.recs[i])]
        /\ store["artists"].exists
        /\ Range(store["artists"].rows) = {ArtistsRowOf(r) : r \in Range(song_files.recs)}
        /\ NoTwoEqualRows(store["artists"].rows)

=============================================================================
